---- MODULE Spec2Model ----
(***************************************************************************)
(* State-reconstruction engine of core/data_restore/src/accounts_state.rs. *)
(*                                                                         *)
(* FranklinAccountsStates holds the ledger (plasma_state.balance_tree) and *)
(* replays operation blocks: update_accounts_states_from_op_block          *)
(* dispatches on the block type, the block's transactions are obtained     *)
(* (reconciled from on-chain events for Deposit / FullExit, decoded from   *)
(* the commitment bytes for Transfer) and then applied one by one by the   *)
(* handler's for-loop.  The engine is single threaded: pc is the position  *)
(* of the one running call, "idle" between calls.  While a call is running *)
(* no other block is accepted, so each loop iteration is a step that       *)
(* nothing can interleave with or skip.                                    *)
(***************************************************************************)
EXTENDS Integers, Sequences, FiniteSets, TLC

VARIABLES
    items,            \* plasma_state.balance_tree.items : AccountId -> Account
    pc,               \* position of the running call
    pending,          \* transactions of the running block not yet applied
    result,           \* what the last call returned to its caller
    applied,          \* transactions of the running / last block applied so far
    op,               \* history: block type of the running / last call
    start,            \* history: the ledger when that call began
    block_txs,        \* history: the transactions obtained for that call
    prev,             \* history: the ledger before the loop's last iteration
    last_tx,          \* history: the transaction of that iteration, if any
    first_deposit,    \* history: key carried by the first deposit of each
                      \* stored account since it came into existence
    last_exit,        \* history: the ids fully exited and not written since
                      \* ("exited") or written by one deposit of the running
                      \* call ("redeposited"), with the key they had
    batch_events,     \* reconciler input: <<action_events, cancel_events>>
    batch_out,        \* reconciler output for batch_events; in a call, what
                      \* get_all_transactions_from_.. returned to the handler
    data_len          \* history: op_block.commitment_data.len() of the call

vars == <<items, pc, pending, result, applied, op, start, block_txs, prev,
          last_tx, first_deposit, last_exit, batch_events, batch_out, data_len>>

----------------------------------------------------------------------------
(* Bounds of the model.                                                     *)

MaxBalance == 3       \* blocks that would push a balance above it are not offered
MaxNonce == 2         \* blocks that would push a nonce above it are not offered
MaxTxs == 2           \* 9-byte records in one Transfer block
MaxEvents == 2        \* events the log source returns for one batch (Spec)
MaxBatchEvents == 3   \* events of one batch in the reconciler specification

AccountIds == {0, 1, 2}          \* ids carried by transfer records
EventAccountIds == {1, 2}        \* ids carried by deposit / exit events
TransferAmounts == {1}           \* decoded amounts of transfer records
TransferFees == {1}              \* decoded fees of transfer records
DepositAmounts == {1}            \* amounts carried by one deposit event
Positions == {<<1, 1>>, <<1, 2>>}                  \* (block_number, log_index)
BatchPositions == {<<1, 2>>, <<2, 1>>, <<2, 2>>}   \* the same, reconciler spec.
BatchAmounts == {1, 2}           \* deposit event amounts, reconciler spec.
BatchPublicKeys == {2, 5}        \* a key of a curve point, and one of none

----------------------------------------------------------------------------
(* Results.  kind is the DataRestoreError variant ("Ok" for Ok(())), of is  *)
(* the variant of the error a NoData wraps, msg its message.                *)

Res(kind, of, msg) == [kind |-> kind, of |-> of, msg |-> msg]
OkResult == Res("Ok", "", "")
NoResult == Res("None", "", "")
Err(kind) == Res(kind, "", "")
ErrMsg(kind, msg) == Res(kind, "", msg)
\* NoData with the bug of the error being passed on as it is (no map_err)
NoData_passes_through(e) == e

\* .map_err(|e| DataRestoreError::NoData(e.to_string()))
NoData(e) == Res("NoData", e.kind, e.msg)

----------------------------------------------------------------------------
(* Account and the ledger store.                                            *)

ZeroKey == <<0, 0>>

\* Account::default(): zero balances, nonce 0, zero public key
AccountDefault == [balance |-> 0, nonce |-> 0, pk |-> ZeroKey]

get_balance(account) == account.balance
add_balance(account, amount) == [account EXCEPT !.balance = @ + amount]
sub_balance(account, amount) == [account EXCEPT !.balance = @ - amount]

\* balance_tree.items.get(&id)
Has(tree, id) == id \in DOMAIN tree

\* balance_tree.insert(id, account)
insert(tree, id, account) ==
    [i \in (DOMAIN tree) \cup {id} |-> IF i = id THEN account ELSE tree[i]]

\* balance_tree.delete(id) / items.remove(&id)
delete(tree, id) == [i \in (DOMAIN tree) \ {id} |-> tree[i]]

EmptyTree == [i \in {} |-> AccountDefault]

\* FranklinAccountsStates::get_account: Some(account) as a one-element set
get_account(account_id) ==
    IF Has(items, account_id) THEN {items[account_id]} ELSE {}

----------------------------------------------------------------------------
(* Batch Key Deriver.                                                       *)

BatchKeyLen == 32

\* get_batch_number: slicing commitment_data[0..32] panics on a shorter buffer
get_batch_number(commitment_data) ==
    IF Len(commitment_data) < BatchKeyLen
    THEN [panic |-> TRUE, batch_number |-> <<>>]
    ELSE [panic |-> FALSE, batch_number |-> SubSeq(commitment_data, 1, BatchKeyLen)]

----------------------------------------------------------------------------
(* Transaction Decoder, transfer path:                                      *)
(* get_all_transactions_from_transfer_block.                                *)

HeaderLen == 160
RecordLen == 9

\* U256::from(&bytes[..]).as_u32(): big-endian unsigned integer
RECURSIVE from_big_endian(_)
from_big_endian(bytes) ==
    IF bytes = <<>> THEN 0
    ELSE from_big_endian(SubSeq(bytes, 1, Len(bytes) - 1)) * 256 + bytes[Len(bytes)]

\* Numeric Codec (helpers, external collaborator): a pure function of the bytes
amount_bytes_slice_to_big_decimal(bytes) == from_big_endian(bytes)
fee_bytes_slice_to_big_decimal(byte) == byte

\* slice.chunks(9): consecutive chunks, the last one possibly shorter
RECURSIVE chunks(_, _)
chunks(bytes, n) ==
    IF bytes = <<>> THEN <<>>
    ELSE IF Len(bytes) <= n THEN <<bytes>>
    ELSE <<SubSeq(bytes, 1, n)>> \o chunks(SubSeq(bytes, n + 1, Len(bytes)), n)

\* TransferTxOf with the bug of sender and recipient read from each other's bytes
TransferTxOf_swaps_parties(tx, i) ==
    [from   |-> from_big_endian(SubSeq(tx, 4, 6)),
     to     |-> from_big_endian(SubSeq(tx, 1, 3)),
     amount |-> amount_bytes_slice_to_big_decimal(SubSeq(tx, 7, 8)),
     fee    |-> fee_bytes_slice_to_big_decimal(tx[9]),
     nonce  |-> i]

\* one iteration of the decoding loop: record tx with index i (0-based)
TransferTxOf(tx, i) ==
    [from   |-> from_big_endian(SubSeq(tx, 1, 3)),
     to     |-> from_big_endian(SubSeq(tx, 4, 6)),
     amount |-> amount_bytes_slice_to_big_decimal(SubSeq(tx, 7, 8)),
     fee    |-> fee_bytes_slice_to_big_decimal(tx[9]),
     nonce  |-> i]

\* The decoder.  wraps tells whether the build lets tx_data_len - 160 wrap
\* around (release) or panics on it (overflow checks); it matters only for
\* buffers shorter than the header.  Indexing a chunk shorter than 9 bytes
\* panics.  Returns [panic, txs].
get_all_transactions_from_transfer_block(commitment_data, wraps) ==
    LET tx_data_len == Len(commitment_data)
        underflow == tx_data_len < HeaderLen
        tx_data_vec == IF underflow THEN commitment_data
                       ELSE SubSeq(commitment_data, HeaderLen + 1, tx_data_len)
        txs == chunks(tx_data_vec, RecordLen)
    IN  IF underflow /\ ~wraps THEN [panic |-> TRUE, txs |-> <<>>]
        ELSE IF \E i \in 1..Len(txs) : Len(txs[i]) < RecordLen
             THEN [panic |-> TRUE, txs |-> <<>>]
        ELSE [panic |-> FALSE,
              txs |-> [i \in 1..Len(txs) |-> TransferTxOf(txs[i], i - 1)]]

----------------------------------------------------------------------------
(* Transaction Decoder, deposit path: public key recovery.  The prime field *)
(* Fr and the twisted Edwards curve -x^2 + y^2 = 1 + d x^2 y^2 are scaled   *)
(* down: a 5-bit key holds the x sign in its top bit and y in the other 4.  *)

FieldModulus == 13
EdwardsD == 2
SignBit == 16

\* Fr::from_repr: fails when the value is not below the modulus
from_repr(repr) == IF repr < FieldModulus THEN {repr} ELSE {}

\* edwards::Point::get_for_y: x^2 = (y^2 - 1) / (d y^2 + 1), the root whose
\* parity is the sign (x.negate() when is_odd(x) differs from it)
get_for_y(y, sign) ==
    LET y2 == (y * y) % FieldModulus
        tmp == (EdwardsD * y2 + 1) % FieldModulus
        tmp2 == (y2 + FieldModulus - 1) % FieldModulus
        inv == {i \in 1..(FieldModulus - 1) : (i * tmp) % FieldModulus = 1}
        x2 == LET i == CHOOSE j \in inv : TRUE IN (tmp2 * i) % FieldModulus
        roots == {r \in 0..(FieldModulus - 1) : (r * r) % FieldModulus = x2}
        x == CHOOSE r \in roots : TRUE
        negated == (FieldModulus - x) % FieldModulus
    IN  IF inv = {} \/ roots = {} THEN {}
        ELSE IF ((x % 2) = 1) # sign THEN {<<negated, y>>} ELSE {<<x, y>>}

\* lines 398-421: Some((pub_x, pub_y)) as a one-element set, {} for WrongPubKey
public_key_point(public_key) ==
    LET x_sign == public_key >= SignBit
        fe_repr == public_key % SignBit
    IN  IF from_repr(fe_repr) = {} THEN {}
        ELSE get_for_y(fe_repr, x_sign)

\* format!("{}", v.0): the decimal digits of a U256
RECURSIVE format_decimal(_)
format_decimal(n) ==
    IF n < 10 THEN <<n>> ELSE format_decimal(n \div 10) \o <<n % 10>>

\* BigDecimal::from_str_radix(digits, 10)
RECURSIVE from_str_radix(_)
from_str_radix(digits) ==
    IF digits = <<>> THEN 0
    ELSE from_str_radix(SubSeq(digits, 1, Len(digits) - 1)) * 10 + digits[Len(digits)]

----------------------------------------------------------------------------
(* Event Reconciler.  A Log is [topic, account, public_key, amount,         *)
(* block_number, log_index, removed]: topic is topics[0], account is        *)
(* topics[2], public_key is topics[3], amount is the data payload.          *)

deposit_event_topic == "LogDepositRequest"
deposit_canceled_topic == "LogCancelDepositRequest"
exit_event_topic == "LogExitRequest"
exit_canceled_topic == "LogCancelExitRequest"
\* the signature of any other event of the contract
unexpected_topic == "LogUnexpected"

\* l_block.cmp(&r_block).then(l_index.cmp(&r_index)) is Less / Equal
OrderingLess(l, r) ==
    \/ l.block_number < r.block_number
    \/ l.block_number = r.block_number /\ l.log_index < r.log_index
OrderingEqual(l, r) ==
    l.block_number = r.block_number /\ l.log_index = r.log_index

\* all_events.sort_by(..): repeatedly moves the least remaining event forward
RECURSIVE sort_by(_)
sort_by(events) ==
    IF events = <<>> THEN <<>>
    ELSE LET m == CHOOSE i \in 1..Len(events) :
                    \A j \in 1..Len(events) :
                        /\ ~OrderingLess(events[j], events[i])
                        /\ (OrderingEqual(events[j], events[i]) => i <= j)
             rest == [k \in 1..(Len(events) - 1) |->
                        IF k < m THEN events[k] ELSE events[k + 1]]
         IN  <<events[m]>> \o sort_by(rest)

IsRetained(el) == ~el.removed

\* load_sorted_events with the bug of events of one position being ordered
\* silently
load_sorted_events_picks_one(action_events, cancel_events) ==
    LET all_events == SelectSeq(action_events \o cancel_events, IsRetained)
    IN  [err |-> OkResult, events |-> sort_by(all_events)]

\* load_sorted_events after the two eth().logs calls: [err, events].  The
\* comparator sets error_flag when it is handed two events that compare Equal,
\* which a comparison sort does for every pair of equal keys it has to order.
load_sorted_events(action_events, cancel_events) ==
    LET all_events == SelectSeq(action_events \o cancel_events, IsRetained)
        error_flag == \E i, j \in 1..Len(all_events) :
                          i < j /\ OrderingEqual(all_events[i], all_events[j])
    IN  IF error_flag
        THEN [err |-> ErrMsg("Unknown", "Logs can not have same indexes"),
              events |-> <<>>]
        ELSE [err |-> OkResult, events |-> sort_by(all_events)]

EmptyBatch == [k \in {} |-> [amount |-> 0, public_key |-> 0]]

\* deposit_fold with the bug of a second deposit replacing the pending amount
RECURSIVE deposit_fold_overwrites(_, _, _)
deposit_fold_overwrites(all_events, i, this_batch) ==
    IF i > Len(all_events) THEN [err |-> OkResult, this_batch |-> this_batch]
    ELSE
      LET event == all_events[i]
          account_id == event.account
      IN  IF event.topic = deposit_event_topic THEN
            deposit_fold_overwrites(all_events, i + 1,
              insert(this_batch, account_id,
                     [amount |-> event.amount, public_key |-> event.public_key]))
          ELSE IF event.topic = deposit_canceled_topic THEN
            IF account_id \notin DOMAIN this_batch
            THEN [err |-> ErrMsg("Unknown", "existing_record not found for deposits"),
                  this_batch |-> EmptyBatch]
            ELSE deposit_fold_overwrites(all_events, i + 1, delete(this_batch, account_id))
          ELSE [err |-> ErrMsg("Unknown", "unexpected topic"),
                this_batch |-> EmptyBatch]

\* lines 359-390: the fold of the sorted events into this_batch, from event i
RECURSIVE deposit_fold(_, _, _)
deposit_fold(all_events, i, this_batch) ==
    IF i > Len(all_events) THEN [err |-> OkResult, this_batch |-> this_batch]
    ELSE
      LET event == all_events[i]
          account_id == event.account
      IN  IF event.topic = deposit_event_topic THEN
            deposit_fold(all_events, i + 1,
              IF account_id \in DOMAIN this_batch
              THEN insert(this_batch, account_id,
                     [amount |-> this_batch[account_id].amount + event.amount,
                      public_key |-> this_batch[account_id].public_key])
              ELSE insert(this_batch, account_id,
                     [amount |-> event.amount, public_key |-> event.public_key]))
          ELSE IF event.topic = deposit_canceled_topic THEN
            IF account_id \notin DOMAIN this_batch
            THEN [err |-> ErrMsg("Unknown", "existing_record not found for deposits"),
                  this_batch |-> EmptyBatch]
            ELSE deposit_fold(all_events, i + 1, delete(this_batch, account_id))
          ELSE [err |-> ErrMsg("Unknown", "unexpected topic"),
                this_batch |-> EmptyBatch]

\* lines 398-431: the DepositTx of one entry (k, v) of this_batch
DepositTxOf(k, v) ==
    LET point == CHOOSE pt \in public_key_point(v.public_key) : TRUE
    IN  [account |-> k,
         amount  |-> from_str_radix(format_decimal(v.amount)),
         pub_x   |-> point[1],
         pub_y   |-> point[2]]

\* get_all_transactions_from_deposit_batch: [err, txs].  order is the order in
\* which this_batch.iter() yields the keys of the HashMap.
get_all_transactions_from_deposit_batch(action_events, cancel_events, order) ==
    LET sorted == load_sorted_events(action_events, cancel_events)
        folded == deposit_fold(sorted.events, 1, EmptyBatch)
        this_batch == folded.this_batch
    IN  IF sorted.err # OkResult THEN [err |-> sorted.err, txs |-> <<>>]
        ELSE IF folded.err # OkResult THEN [err |-> folded.err, txs |-> <<>>]
        ELSE IF \E k \in DOMAIN this_batch :
                    public_key_point(this_batch[k].public_key) = {}
             THEN [err |-> Err("WrongPubKey"), txs |-> <<>>]
        ELSE [err |-> OkResult,
              txs |-> [n \in 1..Len(order) |->
                          DepositTxOf(order[n], this_batch[order[n]])]]

\* exit_fold with the bug of a repeated exit request being deduplicated
RECURSIVE exit_fold_dedups(_, _, _)
exit_fold_dedups(all_events, i, this_batch) ==
    IF i > Len(all_events) THEN [err |-> OkResult, this_batch |-> this_batch]
    ELSE
      LET event == all_events[i]
          account_id == event.account
      IN  IF event.topic = exit_event_topic THEN
            exit_fold_dedups(all_events, i + 1, this_batch \cup {account_id})
          ELSE IF event.topic = exit_canceled_topic THEN
            IF account_id \notin this_batch
            THEN [err |-> ErrMsg("Unknown", "existing_record fetch failed"),
                  this_batch |-> {}]
            ELSE exit_fold_dedups(all_events, i + 1, this_batch \ {account_id})
          ELSE [err |-> ErrMsg("Unknown", "unexpected topic"), this_batch |-> {}]

\* lines 487-513: the fold of the sorted events into this_batch, from event i
RECURSIVE exit_fold(_, _, _)
exit_fold(all_events, i, this_batch) ==
    IF i > Len(all_events) THEN [err |-> OkResult, this_batch |-> this_batch]
    ELSE
      LET event == all_events[i]
          account_id == event.account
      IN  IF event.topic = exit_event_topic THEN
            IF account_id \in this_batch
            THEN [err |-> Err("DoubleExit"), this_batch |-> {}]
            ELSE exit_fold(all_events, i + 1, this_batch \cup {account_id})
          ELSE IF event.topic = exit_canceled_topic THEN
            IF account_id \notin this_batch
            THEN [err |-> ErrMsg("Unknown", "existing_record fetch failed"),
                  this_batch |-> {}]
            ELSE exit_fold(all_events, i + 1, this_batch \ {account_id})
          ELSE [err |-> ErrMsg("Unknown", "unexpected topic"), this_batch |-> {}]

\* get_all_transactions_from_full_exit_batch: [err, txs].  order is the order
\* in which this_batch.iter() yields the elements of the HashSet.
get_all_transactions_from_full_exit_batch(action_events, cancel_events, order) ==
    LET sorted == load_sorted_events(action_events, cancel_events)
        folded == exit_fold(sorted.events, 1, {})
    IN  IF sorted.err # OkResult THEN [err |-> sorted.err, txs |-> <<>>]
        ELSE IF folded.err # OkResult THEN [err |-> folded.err, txs |-> <<>>]
        ELSE [err |-> OkResult,
              txs |-> [n \in 1..Len(order) |-> [account |-> order[n], amount |-> 0]]]

\* the iteration orders of a HashMap / HashSet with key set S
Orders(S) ==
    {o \in [1..Cardinality(S) -> S] : \A k \in S : \E n \in 1..Cardinality(S) : o[n] = k}

----------------------------------------------------------------------------
(* State Transition Applier: one iteration of each handler's for-loop.      *)
(* Each returns [err, tree]: the error the iteration returns with (OkResult *)
(* when it falls through) and the ledger it leaves.                         *)

\* transfer_tx with the bug of the fee left out of the balance check
transfer_tx_ignores_fee(tree, tx) ==
    IF Has(tree, tx.from) THEN
      LET from == tree[tx.from]
          transacted_amount == 0 + tx.amount + tx.fee
      IN  IF get_balance(from) < tx.amount
          THEN [err |-> Err("WrongAmount"), tree |-> tree]
          ELSE
            LET to == IF Has(tree, tx.to) THEN tree[tx.to] ELSE AccountDefault
                from_new == [sub_balance(from, transacted_amount)
                                EXCEPT !.nonce = @ + 1]
                to_new == IF tx.to # 0 THEN add_balance(to, tx.amount) ELSE to
            IN  [err |-> OkResult,
                 tree |-> insert(insert(tree, tx.from, from_new), tx.to, to_new)]
    ELSE [err |-> Err("NonexistentAccount"), tree |-> tree]

\* transfer_tx with the bug of the amount left out of the balance check
transfer_tx_checks_fee_only(tree, tx) ==
    IF Has(tree, tx.from) THEN
      LET from == tree[tx.from]
          transacted_amount == 0 + tx.amount + tx.fee
      IN  IF get_balance(from) < tx.fee
          THEN [err |-> Err("WrongAmount"), tree |-> tree]
          ELSE
            LET to == IF Has(tree, tx.to) THEN tree[tx.to] ELSE AccountDefault
                from_new == [sub_balance(from, transacted_amount)
                                EXCEPT !.nonce = @ + 1]
                to_new == IF tx.to # 0 THEN add_balance(to, tx.amount) ELSE to
            IN  [err |-> OkResult,
                 tree |-> insert(insert(tree, tx.from, from_new), tx.to, to_new)]
    ELSE [err |-> Err("NonexistentAccount"), tree |-> tree]

\* transfer_tx with the bug of the recipient being credited before the sender
\* is looked up
transfer_tx_credits_first(tree, tx) ==
    LET to == IF Has(tree, tx.to) THEN tree[tx.to] ELSE AccountDefault
        to_new == IF tx.to # 0 THEN add_balance(to, tx.amount) ELSE to
    IN  IF Has(tree, tx.from) THEN
          LET from == tree[tx.from]
              transacted_amount == 0 + tx.amount + tx.fee
          IN  IF get_balance(from) < transacted_amount
              THEN [err |-> Err("WrongAmount"), tree |-> tree]
              ELSE
                LET from_new == [sub_balance(from, transacted_amount)
                                    EXCEPT !.nonce = @ + 1]
                IN  [err |-> OkResult,
                     tree |-> insert(insert(tree, tx.from, from_new), tx.to, to_new)]
        ELSE [err |-> Err("NonexistentAccount"), tree |-> insert(tree, tx.to, to_new)]

\* lines 99-124
transfer_tx(tree, tx) ==
    IF Has(tree, tx.from) THEN
      LET from == tree[tx.from]
          transacted_amount == 0 + tx.amount + tx.fee
      IN  IF get_balance(from) < transacted_amount
          THEN [err |-> Err("WrongAmount"), tree |-> tree]
          ELSE
            LET to == IF Has(tree, tx.to) THEN tree[tx.to] ELSE AccountDefault
                from_new == [sub_balance(from, transacted_amount)
                                EXCEPT !.nonce = @ + 1]
                to_new == IF tx.to # 0 THEN add_balance(to, tx.amount) ELSE to
            IN  [err |-> OkResult,
                 tree |-> insert(insert(tree, tx.from, from_new), tx.to, to_new)]
    ELSE [err |-> Err("NonexistentAccount"), tree |-> tree]

\* deposit_tx with the bug of every deposit setting the public key
deposit_tx_overwrites_key(tree, tx) ==
    LET account == IF Has(tree, tx.account)
                   THEN [tree[tx.account] EXCEPT !.pk = <<tx.pub_x, tx.pub_y>>]
                   ELSE [AccountDefault EXCEPT !.pk = <<tx.pub_x, tx.pub_y>>]
    IN  [err |-> OkResult,
         tree |-> insert(delete(tree, tx.account), tx.account,
                         add_balance(account, tx.amount))]

\* lines 144-156
deposit_tx(tree, tx) ==
    LET account == IF Has(tree, tx.account) THEN tree[tx.account]
                   ELSE [AccountDefault EXCEPT !.pk = <<tx.pub_x, tx.pub_y>>]
    IN  [err |-> OkResult,
         tree |-> insert(delete(tree, tx.account), tx.account,
                         add_balance(account, tx.amount))]

\* full_exit_tx with the bug of the slot being reset to a default account
full_exit_tx_resets(tree, tx) ==
    IF ~Has(tree, tx.account)
    THEN [err |-> Err("NonexistentAccount"), tree |-> tree]
    ELSE [err |-> OkResult, tree |-> insert(tree, tx.account, AccountDefault)]

\* full_exit_tx with the bug of the next id's slot being deleted as well
full_exit_tx_deletes_next(tree, tx) ==
    IF ~Has(tree, tx.account)
    THEN [err |-> Err("NonexistentAccount"), tree |-> tree]
    ELSE [err |-> OkResult, tree |-> delete(delete(tree, tx.account), tx.account + 1)]

\* lines 176-185
full_exit_tx(tree, tx) ==
    IF ~Has(tree, tx.account)
    THEN [err |-> Err("NonexistentAccount"), tree |-> tree]
    ELSE [err |-> OkResult, tree |-> delete(tree, tx.account)]

apply_tx(kind, tree, tx) ==
    CASE kind = "transfer"  -> transfer_tx(tree, tx)
      [] kind = "deposit"   -> deposit_tx(tree, tx)
      [] kind = "full_exit" -> full_exit_tx(tree, tx)

\* The model's caps: every ledger the block passes through stays within
\* MaxBalance and MaxNonce.
InCaps(tree) ==
    \A id \in DOMAIN tree :
        tree[id].balance <= MaxBalance /\ tree[id].nonce <= MaxNonce

RECURSIVE StaysInCaps(_, _, _)
StaysInCaps(kind, tree, txs) ==
    IF txs = <<>> THEN TRUE
    ELSE LET r == apply_tx(kind, tree, Head(txs))
         IN  r.err # OkResult
             \/ (InCaps(r.tree) /\ StaysInCaps(kind, r.tree, Tail(txs)))

----------------------------------------------------------------------------
(* Inputs: operation blocks and the log source's answers.                   *)

Bytes(n, b) == [i \in 1..n |-> b]

\* a 9-byte transfer record
RecordBytes(from, to, amount, fee) == <<0, 0, from, 0, 0, to, 0, amount, fee>>
Records ==
    {RecordBytes(f, t, a, e) :
        f \in AccountIds, t \in AccountIds, a \in TransferAmounts, e \in TransferFees}

RECURSIVE Flatten(_)
Flatten(seqs) == IF seqs = <<>> THEN <<>> ELSE Head(seqs) \o Flatten(Tail(seqs))

\* commitment data of Transfer blocks: the header and up to MaxTxs records
TransferData ==
    {Bytes(HeaderLen, 0) \o Flatten(recs) :
        recs \in UNION {[1..n -> Records] : n \in 0..MaxTxs}}

Event(topic, account, public_key, amount, position, removed) ==
    [topic |-> topic, account |-> account, public_key |-> public_key,
     amount |-> amount, block_number |-> position[1], log_index |-> position[2],
     removed |-> removed]

\* the events of a set, newest first: the order in which a list arrives
RECURSIVE Newest(_)
Newest(S) ==
    IF S = {} THEN <<>>
    ELSE LET m == CHOOSE e \in S : \A f \in S : ~OrderingLess(e, f)
         IN  <<m>> \o Newest(S \ {m})

WithTopic(S, topic) == {e \in S : e.topic = topic}

\* the subsets of S with at most n elements
RECURSIVE SubsetsUpTo(_, _)
SubsetsUpTo(S, n) ==
    IF n = 0 THEN {{}}
    ELSE LET smaller == SubsetsUpTo(S, n - 1)
         IN  smaller \cup {T \cup {e} : T \in smaller, e \in S}

PublicKeys == {2, 18, 5}     \* two keys of curve points, one of none

\* an event of another topic in the answer to the action filter
UnexpectedEvents == {Event(unexpected_topic, 1, 0, 0, <<1, 1>>, FALSE)}

DepositEvents ==
    {Event(deposit_event_topic, a, k, m, i, FALSE) :
        a \in EventAccountIds, k \in PublicKeys, m \in DepositAmounts, i \in Positions}
    \cup {Event(deposit_canceled_topic, a, 0, 0, i, FALSE) :
        a \in EventAccountIds, i \in Positions}
    \cup UnexpectedEvents
ExitEvents ==
    {Event(exit_event_topic, a, 0, 0, i, FALSE) :
        a \in EventAccountIds, i \in Positions}
    \cup {Event(exit_canceled_topic, a, 0, 0, i, FALSE) :
        a \in EventAccountIds, i \in Positions}
    \cup UnexpectedEvents

DepositEventSets == SubsetsUpTo(DepositEvents, MaxEvents)
ExitEventSets == SubsetsUpTo(ExitEvents, MaxEvents)

\* commitment data of Deposit / FullExit blocks: the 32 bytes of the batch key
BatchData == {Bytes(32, 0)}
\* ... and a buffer one byte short of a batch key
ShortBatchData == {Bytes(BatchKeyLen - 1, 0)}

\* commitment data of Transfer blocks shorter than the header: the empty
\* buffer, one record without a header, and a buffer one byte short of it
ShortTransferData == {<<>>, RecordBytes(1, 2, 1, 1), Bytes(HeaderLen - 1, 0)}

\* what the log source can answer besides the events
LogFailures == {Err("WrongEndpoint"), ErrMsg("NoData", "logs")}

NoEvents == [kind |-> "none", action_events |-> <<>>, cancel_events |-> <<>>]
NoOut == [err |-> NoResult, txs |-> <<>>]

----------------------------------------------------------------------------
(* The engine.                                                              *)

NoStart == EmptyTree
NoExits == [i \in {} |-> [stage |-> "exited", pk |-> ZeroKey]]

Init ==
    /\ items = EmptyTree                 \* PlasmaState::empty()
    /\ pc = "idle"
    /\ pending = <<>>
    /\ result = NoResult
    /\ applied = 0
    /\ op = "none"
    /\ start = NoStart
    /\ block_txs = <<>>
    /\ prev = NoStart
    /\ last_tx = <<>>
    /\ first_deposit = [i \in {} |-> ZeroKey]
    /\ last_exit = NoExits
    /\ batch_events = NoEvents
    /\ batch_out = NoOut
    /\ data_len = 0

\* a call on a block of type kind begins
Begins(kind, txs) ==
    /\ op' = kind
    /\ start' = items
    /\ block_txs' = txs
    /\ applied' = 0
    /\ prev' = items
    /\ last_tx' = <<>>
    /\ UNCHANGED <<items, first_deposit, last_exit, batch_events>>

\* the call returns r before its loop has run
Returns(kind, r) ==
    /\ pc' = "returned"
    /\ pending' = <<>>
    /\ result' = r
    /\ Begins(kind, <<>>)

\* Enters with the bug of a block without transactions being refused
Enters_refuses_empty(kind, txs) ==
    /\ StaysInCaps(kind, items, txs)
    /\ IF txs = <<>> THEN Returns(kind, ErrMsg("NoData", "empty block"))
       ELSE /\ pc' = kind
            /\ pending' = txs
            /\ result' = NoResult
            /\ Begins(kind, txs)

\* the call enters its loop over txs (returns Ok at once when there are none)
Enters(kind, txs) ==
    /\ StaysInCaps(kind, items, txs)
    /\ IF txs = <<>> THEN Returns(kind, OkResult)
       ELSE /\ pc' = kind
            /\ pending' = txs
            /\ result' = NoResult
            /\ Begins(kind, txs)

\* the call panics before its loop has run: it never returns, and the engine
\* is not used again
Panics(kind) ==
    /\ pc' = "panicked"
    /\ pending' = <<>>
    /\ result' = NoResult
    /\ batch_out' = NoOut
    /\ Begins(kind, <<>>)

\* DepositBlock with the bug of each deposit being applied as soon as it is
\* decoded, so that a bad public key is met after earlier deposits went in
DepositBlock_applies_while_decoding ==
    /\ pc = "idle"
    /\ \E commitment_data \in BatchData \cup ShortBatchData :
        /\ data_len' = Len(commitment_data)
        /\ IF get_batch_number(commitment_data).panic THEN Panics("deposit")
           ELSE
             \/ \E e \in LogFailures :
                  /\ batch_out' = [err |-> e, txs |-> <<>>]
                  /\ Returns("deposit", NoData(e))
             \/ \E S \in DepositEventSets :
                  LET cancel_events == Newest(WithTopic(S, deposit_canceled_topic))
                      action_events ==
                          Newest(S \ WithTopic(S, deposit_canceled_topic))
                      this_batch == deposit_fold(
                                 load_sorted_events(action_events, cancel_events).events,
                                 1, EmptyBatch).this_batch
                  IN  \E order \in Orders(DOMAIN this_batch) :
                         LET r == get_all_transactions_from_deposit_batch(
                                      action_events, cancel_events, order)
                         IN  /\ batch_out' = r
                             /\ IF r.err = Err("WrongPubKey")
                                     /\ public_key_point(
                                            this_batch[order[1]].public_key) # {}
                                THEN /\ pc' = "returned"
                                     /\ pending' = <<>>
                                     /\ result' = NoData(r.err)
                                     /\ items' = deposit_tx(items,
                                           DepositTxOf(order[1], this_batch[order[1]])).tree
                                     /\ op' = "deposit"
                                     /\ start' = items
                                     /\ block_txs' = <<>>
                                     /\ applied' = 0
                                     /\ prev' = items
                                     /\ last_tx' = <<>>
                                     /\ UNCHANGED <<first_deposit, last_exit, batch_events>>
                                ELSE IF r.err # OkResult
                                THEN Returns("deposit", NoData(r.err))
                                ELSE Enters("deposit", r.txs)

\* update_accounts_states_from_op_block on a Deposit block, up to the loop
DepositBlock ==
    /\ pc = "idle"
    /\ \E commitment_data \in BatchData \cup ShortBatchData :
        /\ data_len' = Len(commitment_data)
        /\ IF get_batch_number(commitment_data).panic THEN Panics("deposit")
           ELSE
             \/ \E e \in LogFailures :
                  /\ batch_out' = [err |-> e, txs |-> <<>>]
                  /\ Returns("deposit", NoData(e))
             \/ \E S \in DepositEventSets :
                  LET cancel_events == Newest(WithTopic(S, deposit_canceled_topic))
                      action_events ==
                          Newest(S \ WithTopic(S, deposit_canceled_topic))
                      keys == DOMAIN deposit_fold(
                                 load_sorted_events(action_events, cancel_events).events,
                                 1, EmptyBatch).this_batch
                  IN  \E order \in Orders(keys) :
                         LET r == get_all_transactions_from_deposit_batch(
                                      action_events, cancel_events, order)
                         IN  /\ batch_out' = r
                             /\ IF r.err # OkResult
                                THEN Returns("deposit", NoData(r.err))
                                ELSE Enters("deposit", r.txs)

\* update_accounts_states_from_op_block on a FullExit block, up to the loop
FullExitBlock ==
    /\ pc = "idle"
    /\ \E commitment_data \in BatchData \cup ShortBatchData :
        /\ data_len' = Len(commitment_data)
        /\ IF get_batch_number(commitment_data).panic THEN Panics("full_exit")
           ELSE
             \/ \E e \in LogFailures :
                  /\ batch_out' = [err |-> e, txs |-> <<>>]
                  /\ Returns("full_exit", NoData(e))
             \/ \E S \in ExitEventSets :
                  LET cancel_events == Newest(WithTopic(S, exit_canceled_topic))
                      action_events ==
                          Newest(S \ WithTopic(S, exit_canceled_topic))
                      keys == exit_fold(
                                 load_sorted_events(action_events, cancel_events).events,
                                 1, {}).this_batch
                  IN  \E order \in Orders(keys) :
                         LET r == get_all_transactions_from_full_exit_batch(
                                      action_events, cancel_events, order)
                         IN  /\ batch_out' = r
                             /\ IF r.err # OkResult
                                THEN Returns("full_exit", NoData(r.err))
                                ELSE Enters("full_exit", r.txs)

\* update_accounts_states_from_op_block on a Transfer block, up to the loop.
\* wraps: whether the build lets tx_data_len - 160 wrap around or panics.
TransferBlock ==
    /\ pc = "idle"
    /\ \E commitment_data \in TransferData \cup ShortTransferData :
       \E wraps \in IF Len(commitment_data) < HeaderLen THEN BOOLEAN ELSE {FALSE} :
         LET r == get_all_transactions_from_transfer_block(commitment_data, wraps)
         IN  /\ data_len' = Len(commitment_data)
             /\ IF r.panic THEN Panics("transfer")
                ELSE /\ batch_out' = [err |-> OkResult, txs |-> r.txs]
                     /\ Enters("transfer", r.txs)

\* UnknownBlock with the bug of the ledger being reset before the rejection
UnknownBlock_resets_ledger ==
    /\ pc = "idle"
    /\ pc' = "returned"
    /\ pending' = <<>>
    /\ result' = Err("WrongType")
    /\ items' = EmptyTree
    /\ op' = "unknown"
    /\ start' = items
    /\ block_txs' = <<>>
    /\ applied' = 0
    /\ prev' = items
    /\ last_tx' = <<>>
    /\ UNCHANGED <<first_deposit, last_exit, batch_events, batch_out, data_len>>

\* update_accounts_states_from_op_block on a block of any other type
UnknownBlock ==
    /\ pc = "idle"
    /\ Returns("unknown", Err("WrongType"))
    /\ UNCHANGED <<batch_out, data_len>>

\* the ids whose slot the iteration writes
Touched(kind, tx) ==
    IF kind = "transfer" THEN {tx.from, tx.to} ELSE {tx.account}

\* the history of full exits after an iteration on tx has succeeded
ExitHistory(kind, tx) ==
    IF kind = "full_exit"
    THEN insert(last_exit, tx.account,
                [stage |-> "exited", pk |-> items[tx.account].pk])
    ELSE IF kind = "deposit" /\ tx.account \in DOMAIN last_exit
              /\ last_exit[tx.account].stage = "exited"
    THEN insert(last_exit, tx.account,
                [last_exit[tx.account] EXCEPT !.stage = "redeposited"])
    ELSE [i \in (DOMAIN last_exit) \ Touched(kind, tx) |-> last_exit[i]]

\* the history of first deposits after an iteration on tx has succeeded
DepositHistory(kind, tx) ==
    IF kind = "full_exit" THEN delete(first_deposit, tx.account)
    ELSE IF kind = "deposit" /\ tx.account \notin DOMAIN first_deposit
    THEN insert(first_deposit, tx.account, <<tx.pub_x, tx.pub_y>>)
    ELSE first_deposit

\* LoopStep with the bug of an error undoing the block's earlier transactions
LoopStepRollsBack(kind) ==
    /\ pc = kind
    /\ pending # <<>>
    /\ LET tx == Head(pending)
           r == apply_tx(kind, items, tx)
       IN  /\ prev' = items
           /\ last_tx' = <<tx>>
           /\ IF r.err # OkResult
              THEN /\ pc' = "returned"
                   /\ pending' = <<>>
                   /\ result' = r.err
                   /\ items' = start
                   /\ UNCHANGED <<applied, first_deposit, last_exit>>
              ELSE /\ items' = r.tree
                   /\ applied' = applied + 1
                   /\ pending' = Tail(pending)
                   /\ pc' = IF Tail(pending) = <<>> THEN "returned" ELSE kind
                   /\ result' = IF Tail(pending) = <<>> THEN OkResult ELSE NoResult
                   /\ last_exit' = ExitHistory(kind, tx)
                   /\ first_deposit' = DepositHistory(kind, tx)
    /\ UNCHANGED <<op, start, block_txs, batch_events, batch_out, data_len>>

\* one iteration of the running loop: an error returns from the call and drops
\* the transactions not yet applied, nothing being undone; falling through
\* after the last transaction returns Ok
LoopStep(kind) ==
    /\ pc = kind
    /\ pending # <<>>
    /\ LET tx == Head(pending)
           r == apply_tx(kind, items, tx)
       IN  /\ prev' = items
           /\ last_tx' = <<tx>>
           /\ IF r.err # OkResult
              THEN /\ pc' = "returned"
                   /\ pending' = <<>>
                   /\ result' = r.err
                   /\ items' = r.tree
                   /\ UNCHANGED <<applied, first_deposit, last_exit>>
              ELSE /\ items' = r.tree
                   /\ applied' = applied + 1
                   /\ pending' = Tail(pending)
                   /\ pc' = IF Tail(pending) = <<>> THEN "returned" ELSE kind
                   /\ result' = IF Tail(pending) = <<>> THEN OkResult ELSE NoResult
                   /\ last_exit' = ExitHistory(kind, tx)
                   /\ first_deposit' = DepositHistory(kind, tx)
    /\ UNCHANGED <<op, start, block_txs, batch_events, batch_out, data_len>>

TransferStep == LoopStep("transfer")
DepositStep == LoopStep("deposit")
FullExitStep == LoopStep("full_exit")

\* the caller has the result of its call; the engine awaits the next block
TakeResult ==
    /\ pc = "returned"
    /\ pc' = "idle"
    /\ result' = NoResult
    /\ applied' = 0
    /\ op' = "none"
    /\ start' = NoStart
    /\ block_txs' = <<>>
    /\ prev' = NoStart
    /\ last_tx' = <<>>
    /\ last_exit' = [i \in {j \in DOMAIN last_exit : last_exit[j].stage = "exited"}
                        |-> last_exit[i]]
    /\ batch_out' = NoOut
    /\ data_len' = 0
    /\ UNCHANGED <<items, pending, first_deposit, batch_events>>

Next ==
    \/ DepositBlock
    \/ FullExitBlock
    \/ TransferBlock
    \/ UnknownBlock
    \/ DepositStep
    \/ FullExitStep
    \/ TransferStep
    \/ TakeResult

Spec == Init /\ [][Next]_vars

----------------------------------------------------------------------------
(* The reconcilers as functions of the log source's answer: the answer is   *)
(* drawn in the initial state and reconciled once.                          *)

\* (the payload of an event flagged removed is never read: one payload is drawn)
BatchDepositEvents ==
    {Event(deposit_event_topic, a, k, m, p, FALSE) :
        a \in EventAccountIds, k \in BatchPublicKeys, m \in BatchAmounts,
        p \in BatchPositions}
    \cup {Event(deposit_event_topic, a, 2, 1, p, TRUE) :
        a \in EventAccountIds, p \in BatchPositions}
    \cup {Event(deposit_canceled_topic, a, 0, 0, p, r) :
        a \in EventAccountIds, p \in BatchPositions, r \in BOOLEAN}
BatchExitEvents ==
    {Event(exit_event_topic, a, 0, 0, p, r) :
        a \in EventAccountIds, p \in BatchPositions, r \in BOOLEAN}
    \cup {Event(exit_canceled_topic, a, 0, 0, p, r) :
        a \in EventAccountIds, p \in BatchPositions, r \in BOOLEAN}

BatchOf(kind, S, action_topic, cancel_topic) ==
    [kind |-> kind,
     action_events |-> Newest(WithTopic(S, action_topic)),
     cancel_events |-> Newest(WithTopic(S, cancel_topic))]

BatchInputs ==
    {BatchOf("deposit", S, deposit_event_topic, deposit_canceled_topic) :
        S \in SubsetsUpTo(BatchDepositEvents, MaxBatchEvents)}
    \cup {BatchOf("full_exit", S, exit_event_topic, exit_canceled_topic) :
        S \in SubsetsUpTo(BatchExitEvents, MaxBatchEvents)}
    \cup {BatchOf("logs", S, exit_event_topic, exit_canceled_topic) :
        S \in SubsetsUpTo(BatchExitEvents, MaxBatchEvents)}

InitReconcile ==
    /\ items = EmptyTree
    /\ pc = "idle"
    /\ pending = <<>>
    /\ result = NoResult
    /\ applied = 0
    /\ op = "none"
    /\ start = NoStart
    /\ block_txs = <<>>
    /\ prev = NoStart
    /\ last_tx = <<>>
    /\ first_deposit = [i \in {} |-> ZeroKey]
    /\ last_exit = NoExits
    /\ batch_events \in BatchInputs
    /\ batch_out = NoOut
    /\ data_len = 0

\* get_all_transactions_from_deposit_batch on the drawn answer
ReconcileDeposit ==
    /\ batch_events.kind = "deposit"
    /\ batch_out = NoOut
    /\ LET keys == DOMAIN deposit_fold(
                      load_sorted_events(batch_events.action_events,
                                         batch_events.cancel_events).events,
                      1, EmptyBatch).this_batch
       IN  \E order \in Orders(keys) :
              batch_out' = get_all_transactions_from_deposit_batch(
                  batch_events.action_events, batch_events.cancel_events, order)
    /\ UNCHANGED <<items, pc, pending, result, applied, op, start, block_txs,
                   prev, last_tx, first_deposit, last_exit, batch_events, data_len>>

\* get_all_transactions_from_full_exit_batch on the drawn answer
ReconcileExit ==
    /\ batch_events.kind = "full_exit"
    /\ batch_out = NoOut
    /\ LET keys == exit_fold(
                      load_sorted_events(batch_events.action_events,
                                         batch_events.cancel_events).events,
                      1, {}).this_batch
       IN  \E order \in Orders(keys) :
              batch_out' = get_all_transactions_from_full_exit_batch(
                  batch_events.action_events, batch_events.cancel_events, order)
    /\ UNCHANGED <<items, pc, pending, result, applied, op, start, block_txs,
                   prev, last_tx, first_deposit, last_exit, batch_events, data_len>>

\* load_sorted_events on the drawn answer
LoadSortedEvents ==
    /\ batch_events.kind = "logs"
    /\ batch_out = NoOut
    /\ batch_out' = load_sorted_events(batch_events.action_events,
                                       batch_events.cancel_events)
    /\ UNCHANGED <<items, pc, pending, result, applied, op, start, block_txs,
                   prev, last_tx, first_deposit, last_exit, batch_events, data_len>>

NextReconcile == ReconcileDeposit \/ ReconcileExit \/ LoadSortedEvents

SpecReconcile == InitReconcile /\ [][NextReconcile]_vars

----------------------------------------------------------------------------
(* The transfer decoder as a function of the commitment data: the data is   *)
(* drawn in the initial state and decoded once.                             *)

DecodeHeaders ==
    {Bytes(HeaderLen, 0), Bytes(HeaderLen, 255), [i \in 1..HeaderLen |-> i % 256]}
DecodeIds == {<<0, 1, 0>>, <<1, 0, 2>>}
DecodeAmounts == {<<0, 1>>, <<1, 0>>}
DecodeFees == {1, 2}
DecodeRecords ==
    {f \o t \o a \o <<e>> :
        f \in DecodeIds, t \in DecodeIds, a \in DecodeAmounts, e \in DecodeFees}
\* what follows the last complete record: nothing, or a partial record
DecodeTails == {<<>>, <<7>>, Bytes(RecordLen - 1, 7)}
DecodeData ==
    {h \o Flatten(recs) \o t :
        h \in DecodeHeaders,
        recs \in UNION {[1..n -> DecodeRecords] : n \in 0..MaxTxs},
        t \in DecodeTails}
    \cup ShortTransferData

InitDecode ==
    /\ items = EmptyTree
    /\ pc = "idle"
    /\ pending = <<>>
    /\ result = NoResult
    /\ applied = 0
    /\ op = "none"
    /\ start = NoStart
    /\ block_txs = <<>>
    /\ prev = NoStart
    /\ last_tx = <<>>
    /\ first_deposit = [i \in {} |-> ZeroKey]
    /\ last_exit = NoExits
    /\ batch_events \in {[kind |-> "transfer", commitment_data |-> d] : d \in DecodeData}
    /\ batch_out = NoOut
    /\ data_len = 0

\* get_all_transactions_from_transfer_block on the drawn data
DecodeTransfer ==
    /\ batch_events.kind = "transfer"
    /\ batch_out = NoOut
    /\ \E wraps \in IF Len(batch_events.commitment_data) < HeaderLen
                     THEN BOOLEAN ELSE {FALSE} :
          batch_out' = get_all_transactions_from_transfer_block(
                           batch_events.commitment_data, wraps)
    /\ data_len' = Len(batch_events.commitment_data)
    /\ UNCHANGED <<items, pc, pending, result, applied, op, start, block_txs,
                   prev, last_tx, first_deposit, last_exit, batch_events>>

NextDecode == DecodeTransfer

SpecDecode == InitDecode /\ [][NextDecode]_vars

----------------------------------------------------------------------------
(* Properties of the transfer decoder (SpecDecode).                         *)

\* byte j (0-based) of record i (0-based) of the drawn commitment data
RecordByte(i, j) == batch_events.commitment_data[HeaderLen + RecordLen * i + j + 1]
\* the bytes after the header
PayloadLen == data_len - HeaderLen

\* C12: commitment data of 160 header bytes and exactly k complete 9-byte
\* records decodes to exactly k TransferTx in record order, the i-th with
\* nonce i, sender from bytes 0-2 and recipient from bytes 3-5 (big-endian),
\* amount from bytes 6-7 and fee from byte 8, whatever the header holds.
C12_TransferDecoding ==
    (batch_out # NoOut /\ PayloadLen >= 0 /\ PayloadLen % RecordLen = 0) =>
        /\ ~batch_out.panic
        /\ Len(batch_out.txs) = PayloadLen \div RecordLen
        /\ \A i \in 0..(Len(batch_out.txs) - 1) :
              batch_out.txs[i + 1] =
                 [from   |-> RecordByte(i, 0) * 65536 + RecordByte(i, 1) * 256
                                + RecordByte(i, 2),
                  to     |-> RecordByte(i, 3) * 65536 + RecordByte(i, 4) * 256
                                + RecordByte(i, 5),
                  amount |-> amount_bytes_slice_to_big_decimal(
                                <<RecordByte(i, 6), RecordByte(i, 7)>>),
                  fee    |-> fee_bytes_slice_to_big_decimal(RecordByte(i, 8)),
                  nonce  |-> i]

\* two records behind a header of nonzero bytes were decoded, the first from
\* id 256 to id 65538
C12_Witness ==
    /\ batch_out # NoOut
    /\ ~batch_out.panic
    /\ Len(batch_out.txs) = 2
    /\ batch_events.commitment_data[1] # 0
    /\ batch_out.txs[1].from = 256
    /\ batch_out.txs[1].to = 65538
    /\ batch_out.txs[2].nonce = 1

\* C13: when the bytes after the header are not a multiple of 9, decoding
\* succeeds and returns exactly floor((len - 160) / 9) transfers, the trailing
\* partial record being dropped.
C13_PartialRecordDropped ==
    (batch_out # NoOut /\ PayloadLen >= 0 /\ PayloadLen % RecordLen # 0) =>
        /\ ~batch_out.panic
        /\ Len(batch_out.txs) = PayloadLen \div RecordLen

----------------------------------------------------------------------------
(* Properties of the reconcilers (SpecReconcile).                           *)

Range(seq) == {seq[i] : i \in 1..Len(seq)}

\* the events of the answer that are not flagged removed
RetainedEvents ==
    {e \in Range(batch_events.action_events \o batch_events.cancel_events) :
        ~e.removed}
DistinctPositions ==
    \A e, f \in RetainedEvents : e # f => ~OrderingEqual(e, f)
IsAction(e) == e.topic \in {deposit_event_topic, exit_event_topic}
EventsOfId(id) == {e \in RetainedEvents : e.account = id}
\* the event of the same id that comes right before e, if any
PreviousOfId(e) ==
    LET before == {f \in EventsOfId(e.account) : OrderingLess(f, e)}
    IN  {f \in before : \A g \in before : ~OrderingLess(f, g)}
\* when e arrives, its id has a pending action
HasPending(e) == \E f \in PreviousOfId(e) : IsAction(f)
\* the ids whose last event is an action
SurvivingIds ==
    {id \in EventAccountIds :
        \E e \in EventsOfId(id) :
            IsAction(e) /\ \A g \in EventsOfId(id) : ~OrderingLess(e, g)}
\* the actions of id since its most recent cancellation
ActionsSinceCancel(id) ==
    {e \in EventsOfId(id) :
        IsAction(e) /\ \A c \in EventsOfId(id) : ~IsAction(c) => OrderingLess(c, e)}
RECURSIVE SumAmounts(_)
SumAmounts(S) ==
    IF S = {} THEN 0
    ELSE LET e == CHOOSE x \in S : TRUE IN e.amount + SumAmounts(S \ {e})
\* the key a surviving id carries: that of the first action since the cancellation
CarriedKey(id) ==
    LET first == CHOOSE e \in ActionsSinceCancel(id) :
                    \A g \in ActionsSinceCancel(id) : ~OrderingLess(g, e)
    IN  first.public_key
TxsOf(id) == {n \in 1..Len(batch_out.txs) : batch_out.txs[n].account = id}
\* the events at which the fold of a batch of exits fails
OffendingExits ==
    {e \in RetainedEvents : IF IsAction(e) THEN HasPending(e) ELSE ~HasPending(e)}

\* C9: folding the retained events in (block_number, log_index) order, the
\* deposit reconciler fails when a cancellation arrives for an id with no
\* pending accumulation; otherwise (the carried keys being keys of curve
\* points) it yields exactly one DepositTx for each id whose last event is an
\* action, its amount the sum of the id's action amounts since its most recent
\* cancellation, and none for an id whose last event is a cancellation.
C9_DepositReconciler ==
    (batch_events.kind = "deposit" /\ batch_out # NoOut /\ DistinctPositions) =>
        IF \E e \in RetainedEvents : ~IsAction(e) /\ ~HasPending(e)
        THEN batch_out.err = ErrMsg("Unknown", "existing_record not found for deposits")
        ELSE IF \E id \in SurvivingIds : public_key_point(CarriedKey(id)) = {}
        THEN batch_out.err = Err("WrongPubKey")
        ELSE /\ batch_out.err = OkResult
             /\ \A id \in SurvivingIds :
                    /\ Cardinality(TxsOf(id)) = 1
                    /\ \A n \in TxsOf(id) :
                          batch_out.txs[n].amount = SumAmounts(ActionsSinceCancel(id))
             /\ \A n \in 1..Len(batch_out.txs) :
                    batch_out.txs[n].account \in SurvivingIds

\* two actions with different amounts and no cancellation between them were
\* reconciled into one DepositTx
C9_Witness ==
    /\ batch_events.kind = "deposit"
    /\ DistinctPositions
    /\ batch_out.err = OkResult
    /\ Len(batch_out.txs) = 1
    /\ batch_out.txs[1].amount = 3
    /\ Cardinality(ActionsSinceCancel(batch_out.txs[1].account)) = 2

\* C10: folding the retained events in (block_number, log_index) order, the
\* exit reconciler fails with DoubleExit when an action arrives for an id that
\* has a pending exit, fails when a cancellation arrives for an id that has
\* none, and otherwise yields exactly one ExitTx with amount zero for each id
\* whose last event is an action.
C10_ExitReconciler ==
    (batch_events.kind = "full_exit" /\ batch_out # NoOut /\ DistinctPositions) =>
        IF OffendingExits # {}
        THEN LET first == CHOOSE e \in OffendingExits :
                             \A g \in OffendingExits : ~OrderingLess(g, e)
             IN  batch_out.err =
                    IF IsAction(first) THEN Err("DoubleExit")
                    ELSE ErrMsg("Unknown", "existing_record fetch failed")
        ELSE /\ batch_out.err = OkResult
             /\ \A id \in SurvivingIds :
                    /\ Cardinality(TxsOf(id)) = 1
                    /\ \A n \in TxsOf(id) : batch_out.txs[n].amount = 0
             /\ \A n \in 1..Len(batch_out.txs) :
                    batch_out.txs[n].account \in SurvivingIds

\* action, cancellation, action for one id was reconciled into one ExitTx
C10_Witness ==
    /\ batch_events.kind = "full_exit"
    /\ DistinctPositions
    /\ batch_out.err = OkResult
    /\ Len(batch_out.txs) = 1
    /\ Cardinality(EventsOfId(batch_out.txs[1].account)) = 3

\* C11: when two retained events of the merged stream have one
\* (block_number, log_index) the reconciliation fails with the ordering error;
\* otherwise load_sorted_events returns exactly the retained events, strictly
\* ascending by (block_number, log_index).  Events flagged removed count for
\* neither.
C11_DuplicateOrderingKey ==
    batch_out # NoOut =>
        IF ~DistinctPositions
        THEN batch_out.err = ErrMsg("Unknown", "Logs can not have same indexes")
        ELSE batch_events.kind = "logs" =>
               /\ batch_out.err = OkResult
               /\ Range(batch_out.events) = RetainedEvents
               /\ Len(batch_out.events) = Cardinality(RetainedEvents)
               /\ \A i \in 1..(Len(batch_out.events) - 1) :
                      OrderingLess(batch_out.events[i], batch_out.events[i + 1])

\* an answer with an action and a cancellation out of order, and a removed
\* event at the position of one of them, came back sorted
C11_Witness ==
    /\ batch_events.kind = "logs"
    /\ batch_out # NoOut
    /\ batch_out.err = OkResult
    /\ Len(batch_out.events) = 2
    /\ batch_out.events # SelectSeq(batch_events.action_events
                                      \o batch_events.cancel_events, IsRetained)
    /\ \E e \in Range(batch_events.action_events \o batch_events.cancel_events) :
          e.removed /\ \E f \in RetainedEvents : OrderingEqual(e, f)

----------------------------------------------------------------------------
(* Properties of the applier (Spec).                                        *)

\* the loop of a call on a block of type kind has run an iteration, on LastTx
Stepped(kind) == op = kind /\ last_tx # <<>>
LastTx == last_tx[1]
\* that iteration applied its transaction / returned an error
Succeeded(kind) == Stepped(kind) /\ result.kind \in {"None", "Ok"}
Failed(kind) == Stepped(kind) /\ result.kind \notin {"None", "Ok"}

BalanceOf(tree, id) == IF Has(tree, id) THEN tree[id].balance ELSE 0
RECURSIVE TotalOver(_, _)
TotalOver(tree, ids) ==
    IF ids = {} THEN 0
    ELSE LET id == CHOOSE x \in ids : TRUE
         IN  tree[id].balance + TotalOver(tree, ids \ {id})
TotalBalance(tree) == TotalOver(tree, DOMAIN tree)

\* C1: every successful transfer leaves its sender with its balance before
\* minus amount minus fee and, when the recipient id is not 0, its recipient
\* with its balance before plus amount.
C1_TransferBalances ==
    Succeeded("transfer") =>
        /\ BalanceOf(items, LastTx.from) =
              BalanceOf(prev, LastTx.from) - LastTx.amount - LastTx.fee
        /\ (LastTx.to # 0 =>
              BalanceOf(items, LastTx.to) = BalanceOf(prev, LastTx.to) + LastTx.amount)

\* C2: every successful transfer decreases the total balance of the ledger by
\* exactly its fee.
C2_FeeBurned ==
    Succeeded("transfer") => TotalBalance(items) = TotalBalance(prev) - LastTx.fee

\* C3: a transfer whose sender holds strictly less than amount + fee fails with
\* WrongAmount and changes neither the sender's nor the recipient's balance.
C3_InsufficientBalance ==
    (/\ Stepped("transfer")
     /\ Has(prev, LastTx.from)
     /\ prev[LastTx.from].balance < LastTx.amount + LastTx.fee) =>
        /\ pc = "returned"
        /\ result = Err("WrongAmount")
        /\ BalanceOf(items, LastTx.from) = BalanceOf(prev, LastTx.from)
        /\ BalanceOf(items, LastTx.to) = BalanceOf(prev, LastTx.to)
        /\ (Has(items, LastTx.to) <=> Has(prev, LastTx.to))

\* a transfer of a sender that holds one unit less than amount + fee has failed
C3_Witness ==
    /\ Failed("transfer")
    /\ result = Err("WrongAmount")
    /\ prev[LastTx.from].balance = LastTx.amount + LastTx.fee - 1
    /\ LastTx.to # LastTx.from

\* C4: in every reachable ledger every stored account's balance is non-negative.
C4_NonNegativeBalances ==
    \A id \in DOMAIN items : items[id].balance >= 0

\* a block has failed after a transfer of it drained its sender to zero
C4_Witness ==
    /\ Failed("transfer")
    /\ applied >= 1
    /\ \E id \in DOMAIN items : items[id].balance = 0 /\ items[id].nonce > 0

\* C5: after a successful full exit of an id, get_account of it is absent, and
\* a following deposit to the id creates a fresh account: nonce 0, the public
\* key of that deposit, and that deposit's amount as balance.
C5_FullExitDeletes ==
    \A id \in DOMAIN last_exit :
        IF last_exit[id].stage = "exited" THEN get_account(id) = {}
        ELSE \E n \in 1..applied :
                /\ block_txs[n].account = id
                /\ get_account(id) =
                      {[balance |-> block_txs[n].amount, nonce |-> 0,
                        pk |-> <<block_txs[n].pub_x, block_txs[n].pub_y>>]}

\* an account that had a balance, a nonce and a key was fully exited and then
\* came back by a deposit carrying another key
C5_Witness ==
    \E id \in DOMAIN last_exit :
        /\ last_exit[id].stage = "redeposited"
        /\ last_exit[id].pk # ZeroKey
        /\ Has(items, id)
        /\ items[id].pk # last_exit[id].pk

\* C6: a deposit to an absent id creates an account with the decoded public
\* key, nonce 0 and the amount as balance; a deposit to a present id adds the
\* amount to its balance and leaves its key and nonce; no other account changes.
C6_DepositFrame ==
    Succeeded("deposit") =>
        /\ Has(items, LastTx.account)
        /\ items[LastTx.account] =
              IF Has(prev, LastTx.account)
              THEN [prev[LastTx.account] EXCEPT !.balance = @ + LastTx.amount]
              ELSE [balance |-> LastTx.amount, nonce |-> 0,
                    pk |-> <<LastTx.pub_x, LastTx.pub_y>>]
        /\ \A id \in AccountIds \ {LastTx.account} :
              /\ Has(items, id) <=> Has(prev, id)
              /\ Has(items, id) => items[id] = prev[id]

\* a deposit carrying one key was applied to an account that has sent a
\* transfer and holds another key
C6_Witness ==
    /\ Succeeded("deposit")
    /\ Has(prev, LastTx.account)
    /\ prev[LastTx.account].nonce > 0
    /\ prev[LastTx.account].pk \notin {ZeroKey, <<LastTx.pub_x, LastTx.pub_y>>}
    /\ \E id \in DOMAIN items : id # LastTx.account

\* C7: every stored account that has received a deposit since it came into
\* existence has the public key carried by the first such deposit.
C7_FirstDepositSetsKey ==
    \A id \in DOMAIN first_deposit :
        Has(items, id) /\ items[id].pk = first_deposit[id]

\* the ledger after the first n transactions of txs, applied in order
RECURSIVE ApplyPrefix(_, _, _, _)
ApplyPrefix(kind, tree, txs, n) ==
    IF n = 0 THEN tree
    ELSE apply_tx(kind, ApplyPrefix(kind, tree, txs, n - 1), txs[n]).tree

\* C8: the transactions of a block are applied one after the other in batch
\* order; when the k-th fails the call returns its error, the ledger is the
\* one the transactions 1..k-1 left, and none of those after k is applied.
C8_SequentialNoRollback ==
    op \in {"transfer", "full_exit", "deposit"} =>
        /\ applied <= Len(block_txs)
        /\ \A n \in 1..applied :
              apply_tx(op, ApplyPrefix(op, start, block_txs, n - 1),
                       block_txs[n]).err = OkResult
        /\ items = ApplyPrefix(op, start, block_txs, applied)
        /\ (pc = op => pending = SubSeq(block_txs, applied + 1, Len(block_txs)))
        /\ (pc = "returned" =>
              /\ pending = <<>>
              /\ IF applied = Len(block_txs) THEN result.kind \in {"Ok", "NoData"}
                 ELSE /\ result.kind \in {"WrongAmount", "NonexistentAccount"}
                      /\ result = apply_tx(op, items, block_txs[applied + 1]).err)

\* the second transaction of a block failed after the first was applied
C8_Witness ==
    /\ pc = "returned"
    /\ op \in {"transfer", "full_exit"}
    /\ result.kind \in {"WrongAmount", "NonexistentAccount"}
    /\ applied >= 1
    /\ items # start

Malformed ==
    /\ pc \in {"panicked", "returned"}
    /\ (pc = "returned" => result.kind \notin {"Ok", "None"})
    /\ batch_out = NoOut \/ (batch_out.err # OkResult /\ batch_out.txs = <<>>)
    /\ block_txs = <<>>
    /\ items = start

\* C15: the application of a block whose commitment data is too short (fewer
\* than 32 bytes for Deposit / FullExit, fewer than 160 for Transfer) fails,
\* no transaction is decoded from it and the ledger is not mutated.
C15_ShortDataRejected ==
    /\ (op \in {"deposit", "full_exit"} /\ data_len < BatchKeyLen) => Malformed
    /\ (op = "transfer" /\ data_len < HeaderLen) => Malformed

\* C16: the application of a block of Unknown type returns WrongType and
\* leaves the ledger exactly as it was.
C16_UnknownRejected ==
    op = "unknown" =>
        /\ pc = "returned"
        /\ result = Err("WrongType")
        /\ items = start
        /\ applied = 0

\* a block of Unknown type was rejected by an engine whose ledger holds accounts
C16_Witness ==
    /\ op = "unknown"
    /\ pc = "returned"
    /\ \E id \in DOMAIN items : items[id].balance > 0

\* C17: the application of a block that decodes to zero transactions (a
\* Transfer block of exactly 160 bytes, a Deposit / FullExit batch whose net
\* effect is empty) succeeds and leaves the ledger unchanged.
C17_NoOpBlock ==
    /\ (/\ op \in {"transfer", "deposit", "full_exit"}
        /\ batch_out # NoOut
        /\ batch_out.err = OkResult
        /\ batch_out.txs = <<>>) =>
           /\ pc = "returned"
           /\ result = OkResult
           /\ items = start
    /\ (op = "transfer" /\ data_len = HeaderLen) =>
           /\ batch_out = [err |-> OkResult, txs |-> <<>>]
           /\ pc = "returned"
           /\ result = OkResult
           /\ items = start

\* a Transfer block of exactly 160 bytes was applied to a ledger that holds
\* accounts
C17_Witness ==
    /\ op = "transfer"
    /\ data_len = HeaderLen
    /\ pc = "returned"
    /\ result = OkResult
    /\ \E id \in DOMAIN items : items[id].balance > 0

\* C18: every successful transfer increments its sender's nonce by exactly
\* one, and deposits and incoming transfers never change a nonce, so that the
\* nonce of an account counts the successful transfers it has sent.
C18_NonceCountsTransfers ==
    /\ Succeeded("transfer") =>
          /\ items[LastTx.from].nonce = prev[LastTx.from].nonce + 1
          /\ (LastTx.to # LastTx.from /\ Has(prev, LastTx.to)) =>
                items[LastTx.to].nonce = prev[LastTx.to].nonce
    /\ (Succeeded("deposit") /\ Has(prev, LastTx.account)) =>
          items[LastTx.account].nonce = prev[LastTx.account].nonce

\* C19: a failure while reconciling or decoding a Deposit or FullExit batch
\* leaves the ledger unchanged; a failed call that has changed the ledger
\* failed in its apply step.
C19_ReconcileFailureFrame ==
    op \in {"deposit", "full_exit"} =>
        /\ (batch_out # NoOut /\ batch_out.err # OkResult) =>
              /\ pc = "returned"
              /\ result.kind \notin {"Ok", "None"}
              /\ applied = 0
              /\ items = start
        /\ (pc = "returned" /\ result # OkResult /\ items # start) =>
              /\ batch_out.err = OkResult
              /\ applied >= 1
              /\ result = apply_tx(op, items, block_txs[applied + 1]).err

\* a Deposit batch with a bad public key failed on a ledger that holds accounts
C19_Witness ==
    /\ op = "deposit"
    /\ pc = "returned"
    /\ batch_out.err = Err("WrongPubKey")
    /\ \E id \in DOMAIN items : items[id].balance > 0

\* the transactions of the block in the order o
Reordered(o) == [n \in 1..Len(block_txs) |-> block_txs[o[n]]]

\* C20: for a Deposit or FullExit batch that applies successfully, every
\* iteration order of the net-effect map / set succeeds and gives the same
\* ledger; each account id occurs in at most one transaction of the batch.
C20_OrderIndependent ==
    (op \in {"deposit", "full_exit"} /\ pc = "returned" /\ result = OkResult) =>
        /\ \A m, n \in 1..Len(block_txs) :
              m # n => block_txs[m].account # block_txs[n].account
        /\ \A o \in Orders(1..Len(block_txs)) :
              /\ \A n \in 1..Len(block_txs) :
                    apply_tx(op, ApplyPrefix(op, start, Reordered(o), n - 1),
                             Reordered(o)[n]).err = OkResult
              /\ ApplyPrefix(op, start, Reordered(o), Len(block_txs)) = items

\* a batch of two deposits, one to a stored account and one to an absent id,
\* was applied
C20_Witness ==
    /\ op = "deposit"
    /\ pc = "returned"
    /\ result = OkResult
    /\ Len(block_txs) = 2
    /\ \E m, n \in 1..2 :
          Has(start, block_txs[m].account) /\ ~Has(start, block_txs[n].account)

\* C21: every error of reconciling or decoding a Deposit or FullExit batch
\* reaches the caller as NoData carrying the original error's message; the
\* errors of the apply step (NonexistentAccount, WrongAmount) and WrongType
\* reach it with their own kind.
C21_ErrorKinds ==
    pc = "returned" =>
        /\ (op \in {"deposit", "full_exit"} /\ batch_out.err # OkResult) =>
              /\ result.kind = "NoData"
              /\ result.of = batch_out.err.kind
              /\ result.msg = batch_out.err.msg
        /\ (/\ op \in {"deposit", "full_exit", "transfer"}
            /\ batch_out.err = OkResult
            /\ result # OkResult) =>
              /\ result.kind \in {"NonexistentAccount", "WrongAmount"}
              /\ result = apply_tx(op, items, block_txs[applied + 1]).err
        /\ op = "unknown" => result = Err("WrongType")

\* a FullExit batch with a repeated exit request has returned NoData of
\* DoubleExit
C21_Witness ==
    /\ pc = "returned"
    /\ op = "full_exit"
    /\ batch_out.err = Err("DoubleExit")
    /\ result = Res("NoData", "DoubleExit", "")

====
